---- MODULE Spec2Model ----
(***************************************************************************)
(* The Python binding of the plasma object-store client                    *)
(* (cpp/src/plasma/extension.cc) as a state machine.                       *)
(*                                                                         *)
(* Every PyPlasma_* function is one action (two for get and wait, which    *)
(* drop the interpreter lock around the blocking client call).  The        *)
(* PlasmaClient methods the binding calls and the store behind them are    *)
(* not part of extension.cc; they are the Client_* / Store_* operators,    *)
(* written from the object lifecycle of the specification.                 *)
(***************************************************************************)
EXTENDS Integers, Sequences, FiniteSets, TLC

\* ------------------------------------------------------------------ bounds
MaxLen == 2        \* longest object-id list passed to get / wait / fetch
MaxRefs == 1       \* cap on one client's reference count of one object
MaxEvents == 3     \* cap on the events published on the notification socket
StoreCapacity == 3 \* bytes the store can allocate

\* ------------------------------------------------------------- value sets
ObjectIDs == {"A", "B"}
Clients == {"c1", "c2"}
Threads == {"t1", "t2"}
Bytes == {0, 1}
NoThread == "nothread"
NoClient == "noclient"

\* File descriptor of the manager connection; -1 when the client was
\* connected without a manager (the value tested by fetch, wait, transfer).
NoManager == -1
ManagerFd == 4
NotificationSock == 5

RECURSIVE SeqsUpTo(_, _)
SeqsUpTo(S, n) ==
    IF n = 0 THEN {<<>>}
    ELSE LET shorter == SeqsUpTo(S, n - 1)
         IN  shorter \cup {Append(s, x) : s \in {q \in shorter : Len(q) = n - 1}, x \in S}

IdLists == SeqsUpTo(ObjectIDs, MaxLen)
\* Sizes of the data buffers created, and their possible contents.
DataSizes == {0, 1}
Buffers == UNION {[1..n -> Bytes] : n \in DataSizes}
Range(s) == {s[i] : i \in 1..Len(s)}

\* int64_t threshold = 1 << 30;
threshold == 2 ^ 30

VARIABLES
    manager_fd,     \* [Clients -> Int]: client->get_manager_fd()
    alive,          \* FALSE once an ARROW_CHECK has aborted the process
    gil,            \* the thread holding the interpreter lock, or NoThread
    objects,        \* the store: [ObjectIDs -> object record]
    remote,         \* ids of objects sealed on a peer store
    in_use,         \* [Clients -> [ObjectIDs -> 0..MaxRefs]] reference counts
    writable,       \* ids whose PyBUF_WRITE memoryview the caller holds
    pending,        \* requests the manager accepted: [fetch, transfer] sets
    channel,        \* frames published on the notification socket, unread
    subscribed,     \* whether the notification socket is open
    store_log,      \* history: seals / deletes performed since subscribe
    received,       \* history: events receive_notification returned
    pc,             \* [Threads -> "idle" | "get" | "wait"]
    frame,          \* [Threads -> locals of the blocked get / wait]
    last            \* the latest call of a binding function and what it returned

vars == <<manager_fd, alive, gil, objects, remote, in_use, writable, pending,
          channel, subscribed, store_log, received, pc, frame, last>>

storeVars == <<objects, remote, in_use, pending, channel, store_log>>

\* ----------------------------------------------------------- store records
AbsentObject ==
    [state |-> "Absent", owner |-> NoClient, data |-> <<>>, metadata |-> <<>>,
     at_seal |-> <<>>]

NoFrame == [op |-> "none"]
NoCall == [op |-> "none", thread |-> NoThread, client |-> NoClient,
           invoked |-> FALSE, ret |-> [kind |-> "none"]]

\* Values a binding function hands back to Python.
PyNone == [kind |-> "None"]
PyErr(exc, msg) == [kind |-> "error", exc |-> exc, msg |-> msg]
Aborted == [kind |-> "abort"]
\* Not a value: the call is inside the blocking client call and has not returned.
Blocked == [kind |-> "blocked"]

Call(op, t, c, args, invoked, ret) ==
    [op |-> op, thread |-> t, client |-> c, args |-> args, invoked |-> invoked,
     ret |-> ret]

UsedBytes ==
    LET Size(id) == Len(objects[id].data) + Len(objects[id].metadata)
        RECURSIVE Sum(_)
        Sum(S) == IF S = {} THEN 0
                  ELSE LET x == CHOOSE y \in S : TRUE IN Size(x) + Sum(S \ {x})
    IN  Sum(ObjectIDs)

\* ------------------------------------------------------ interpreter lock
\* A binding function runs with the interpreter lock held.  Thread t can take
\* the lock when it is not inside a blocking call and the current holder is
\* not inside one either (the interpreter switches threads between calls).
CanTakeGIL(t) == IF gil \in {NoThread, t} THEN TRUE ELSE pc[gil] = "idle"

\* The interpreter has taken the value of the previous call before the next
\* binding function is entered.
ResultTaken == last.ret.kind \in {"none", "blocked"}

HoldGIL(t) ==
    /\ alive
    /\ pc[t] = "idle"
    /\ CanTakeGIL(t)
    /\ ResultTaken

\* Py_BEGIN_ALLOW_THREADS: the holder of the lock while t is in the blocking
\* client call.
KeepGIL(t) == t
Py_BEGIN_ALLOW_THREADS(t) == NoThread

\* Py_END_ALLOW_THREADS: t takes the lock back once it is free.
Py_END_ALLOW_THREADS(t) ==
    /\ alive
    /\ CanTakeGIL(t)
    /\ ResultTaken

\* ARROW_CHECK / ARROW_CHECK_OK failed: the process aborts.
Abort(op, t, c, args) ==
    /\ alive' = FALSE
    /\ gil' = t
    /\ last' = Call(op, t, c, args, TRUE, Aborted)
    /\ UNCHANGED <<manager_fd, objects, remote, in_use, writable, pending,
                   channel, subscribed, store_log, received, pc, frame>>

\* A binding function returns ret to Python without the store changing.
Return(op, t, c, args, invoked, ret) ==
    /\ gil' = t
    /\ last' = Call(op, t, c, args, invoked, ret)
    /\ UNCHANGED <<manager_fd, alive, objects, remote, in_use, writable, pending,
                   channel, subscribed, store_log, received, pc, frame>>

\* The interpreter takes the value the last call returned (or the exception it
\* set) and goes on with the Python code.
TakeResult ==
    /\ alive
    /\ ~ResultTaken
    /\ last' = NoCall
    /\ UNCHANGED <<manager_fd, alive, gil, objects, remote, in_use, writable, pending,
                   channel, subscribed, store_log, received, pc, frame>>

\* ------------------------------------------------ store: notifications
ObjectInfo(id, is_deletion, data_size, metadata_size) ==
    [object_id |-> id, is_deletion |-> is_deletion, data_size |-> data_size,
     metadata_size |-> metadata_size]

\* The store publishes one frame per seal or delete on the open socket.
CanPublish == subscribed => Len(store_log) < MaxEvents

Publish(info, what) ==
    IF subscribed
    THEN /\ channel' = Append(channel, info)
         /\ store_log' = Append(store_log, what)
    ELSE UNCHANGED <<channel, store_log>>

\* ------------------------------------------------------------- create
Client_Create(c, object_id, size, metadata) ==
    IF objects[object_id].state # "Absent" THEN "PlasmaObjectExists"
    ELSE IF UsedBytes + size + Len(metadata) > StoreCapacity THEN "PlasmaStoreFull"
    ELSE "OK"

ObjectExistsMessage == "An object with this ID already exists in the plasma store."
OutOfMemoryMessage ==
    "The plasma store ran out of memory and could not create this object."

\* The exception PyPlasma_create raises for a status of Create, if any.
CreateErrorSwapped(s) ==
    IF s = "PlasmaObjectExists"
    THEN PyErr("PlasmaOutOfMemoryError", OutOfMemoryMessage)
    ELSE IF s = "PlasmaStoreFull"
    THEN PyErr("PlasmaObjectExistsError", ObjectExistsMessage)
    ELSE PyNone
CreateError(s) ==
    IF s = "PlasmaObjectExists"
    THEN PyErr("PlasmaObjectExistsError", ObjectExistsMessage)
    ELSE IF s = "PlasmaStoreFull"
    THEN PyErr("PlasmaOutOfMemoryError", OutOfMemoryMessage)
    ELSE PyNone

PyPlasma_create(t, c, object_id, size, metadata) ==
    /\ HoldGIL(t)
    /\ LET s == Client_Create(c, object_id, size, metadata)
           args == [object_id |-> object_id, size |-> size, metadata |-> metadata]
       IN  IF CreateError(s) # PyNone
           THEN Return("create", t, c, args, TRUE, CreateError(s))
           ELSE IF s # "OK"
           THEN Abort("create", t, c, args)
           ELSE /\ in_use[c][object_id] < MaxRefs
                /\ \E fresh \in Buffers :
                      /\ Len(fresh) = size
                      /\ objects' = [objects EXCEPT ![object_id] =
                            [state |-> "Created", owner |-> c, data |-> fresh,
                             metadata |-> metadata, at_seal |-> <<>>]]
                /\ in_use' = [in_use EXCEPT ![c][object_id] = @ + 1]
                /\ writable' = writable \cup {object_id}
                /\ gil' = t
                /\ last' = Call("create", t, c, args, TRUE,
                                [kind |-> "memoryview", object_id |-> object_id,
                                 size |-> size, flags |-> "PyBUF_WRITE"])
                /\ UNCHANGED <<manager_fd, alive, remote, pending, channel,
                               subscribed, store_log, received, pc, frame>>

\* The caller stores byte b at offset i through the memoryview create gave it.
\* The view is PyBUF_WRITE for as long as the caller keeps it: nothing in the
\* binding ties it to the object's lifecycle state.
WriteBuffer(t, object_id, i, b) ==
    /\ HoldGIL(t)
    /\ object_id \in writable
    /\ i \in 1..Len(objects[object_id].data)
    /\ objects' = [objects EXCEPT ![object_id].data[i] = b]
    /\ gil' = t
    /\ UNCHANGED <<manager_fd, alive, remote, in_use, writable, pending, channel,
                   subscribed, store_log, received, pc, frame, last>>

\* --------------------------------------------------------------- seal
Client_Seal(c, object_id) ==
    IF objects[object_id].state = "Created" /\ objects[object_id].owner = c
    THEN "OK" ELSE "Invalid"

PyPlasma_seal(t, c, object_id) ==
    /\ HoldGIL(t)
    /\ LET args == [object_id |-> object_id]
           o == objects[object_id]
       IN  IF Client_Seal(c, object_id) # "OK"
           THEN Abort("seal", t, c, args)
           ELSE /\ CanPublish
                /\ objects' = [objects EXCEPT ![object_id] =
                       [o EXCEPT !.state = "Sealed", !.owner = NoClient,
                                 !.at_seal = o.data]]
                /\ Publish(ObjectInfo(object_id, FALSE, Len(o.data), Len(o.metadata)),
                           [object_id |-> object_id, kind |-> "seal",
                            data_size |-> Len(o.data),
                            metadata_size |-> Len(o.metadata)])
                /\ gil' = t
                /\ last' = Call("seal", t, c, args, TRUE, PyNone)
                /\ UNCHANGED <<manager_fd, alive, remote, in_use, writable, pending,
                               subscribed, received, pc, frame>>

\* ------------------------------------------------------------ release
Client_Release(c, object_id) ==
    IF in_use[c][object_id] > 0 THEN "OK" ELSE "Invalid"

PyPlasma_release(t, c, object_id) ==
    /\ HoldGIL(t)
    /\ LET args == [object_id |-> object_id]
       IN  IF Client_Release(c, object_id) # "OK"
           THEN Abort("release", t, c, args)
           ELSE /\ in_use' = [in_use EXCEPT ![c][object_id] = @ - 1]
                /\ gil' = t
                /\ last' = Call("release", t, c, args, TRUE, PyNone)
                /\ UNCHANGED <<manager_fd, alive, objects, remote, writable, pending,
                               channel, subscribed, store_log, received, pc, frame>>

\* ------------------------------------------------------------- delete
Client_Delete(c, object_id) ==
    IF objects[object_id].state = "Sealed" THEN "OK" ELSE "Invalid"

\* The size fields of a deletion frame are the store's business; the binding
\* must not read them.
DeletionFrameSizes == DataSizes

PyPlasma_delete(t, c, object_id) ==
    /\ HoldGIL(t)
    /\ LET args == [object_id |-> object_id]
       IN  IF Client_Delete(c, object_id) # "OK"
           THEN Abort("delete", t, c, args)
           ELSE /\ CanPublish
                /\ objects' = [objects EXCEPT ![object_id] = AbsentObject]
                /\ writable' = writable \ {object_id}
                /\ \E ds \in DeletionFrameSizes :
                      Publish(ObjectInfo(object_id, TRUE, ds, 0),
                              [object_id |-> object_id, kind |-> "delete",
                               data_size |-> -1, metadata_size |-> -1])
                /\ gil' = t
                /\ last' = Call("delete", t, c, args, TRUE, PyNone)
                /\ UNCHANGED <<manager_fd, alive, remote, in_use, pending, subscribed,
                               received, pc, frame>>

\* ----------------------------------------------------------- contains
Client_Contains(c, object_id) == objects[object_id].state = "Sealed"

PyPlasma_contains(t, c, object_id) ==
    /\ HoldGIL(t)
    /\ Return("contains", t, c, [object_id |-> object_id], TRUE,
              [kind |-> "bool", value |-> Client_Contains(c, object_id)])

\* ---------------------------------------------------------------- get
Sealed == {id \in ObjectIDs : objects[id].state = "Sealed"}

\* PlasmaClient::Get fills one ObjectBuffer per requested id, data_size -1
\* for an id that is not sealed in the store when the call ends.
Client_Get(c, object_ids) ==
    [i \in 1..Len(object_ids) |->
        LET o == objects[object_ids[i]]
        IN  IF o.state = "Sealed"
            THEN [data_size |-> Len(o.data), metadata_size |-> Len(o.metadata),
                  data |-> o.data, metadata |-> o.metadata]
            ELSE [data_size |-> -1, metadata_size |-> -1, data |-> <<>>,
                  metadata |-> <<>>]]

\* The blocking call ends when every id is sealed or the timeout has elapsed;
\* a negative timeout never elapses.
Client_Get_done(object_ids, timeout_ms, timed_out) ==
    \/ Range(object_ids) \subseteq Sealed
    \/ timed_out /\ timeout_ms >= 0

Memoryview(bytes, size, flags) ==
    [kind |-> "memoryview", bytes |-> SubSeq(bytes, 1, size), flags |-> flags]

\* The list PyPlasma_get builds from the object buffers.
GetReturnsShifted(object_buffers) ==
    LET found == {i \in DOMAIN object_buffers : object_buffers[i].data_size # -1}
        RECURSIVE Pack(_)
        Pack(i) ==
            IF i > Len(object_buffers) THEN <<>>
            ELSE (IF i \in found
                  THEN <<[kind |-> "tuple",
                          data |-> Memoryview(object_buffers[i].data,
                                              object_buffers[i].data_size, "PyBUF_READ"),
                          metadata |-> Memoryview(object_buffers[i].metadata,
                                                  object_buffers[i].metadata_size,
                                                  "PyBUF_READ")]>>
                  ELSE <<>>) \o Pack(i + 1)
    IN  Pack(1)
GetReturns(object_buffers) ==
    [i \in 1..Len(object_buffers) |->
        IF object_buffers[i].data_size # -1
        THEN [kind |-> "tuple",
              data |-> Memoryview(object_buffers[i].data,
                                  object_buffers[i].data_size, "PyBUF_READ"),
              metadata |-> Memoryview(object_buffers[i].metadata,
                                      object_buffers[i].metadata_size, "PyBUF_READ")]
        ELSE PyNone]

Occurrences(object_ids, id) == Cardinality({i \in DOMAIN object_ids : object_ids[i] = id})

PyPlasma_get_begin(t, c, object_id_list, timeout_ms) ==
    /\ HoldGIL(t)
    /\ pc' = [pc EXCEPT ![t] = "get"]
    /\ frame' = [frame EXCEPT ![t] =
           [op |-> "get", client |-> c, object_ids |-> object_id_list,
            timeout_ms |-> timeout_ms]]
    /\ gil' = Py_BEGIN_ALLOW_THREADS(t)
    /\ last' = Call("get", t, c,
                    [object_ids |-> object_id_list, timeout_ms |-> timeout_ms],
                    TRUE, Blocked)
    /\ UNCHANGED <<manager_fd, alive, objects, remote, in_use, writable, pending,
                   channel, subscribed, store_log, received>>

PyPlasma_get_end(t, timed_out) ==
    /\ pc[t] = "get"
    /\ Py_END_ALLOW_THREADS(t)
    /\ LET f == frame[t]
           object_buffers == Client_Get(f.client, f.object_ids)
           got(id) == IF id \in Sealed THEN Occurrences(f.object_ids, id) ELSE 0
       IN  /\ Client_Get_done(f.object_ids, f.timeout_ms, timed_out)
           /\ \A id \in ObjectIDs : in_use[f.client][id] + got(id) <= MaxRefs
           /\ in_use' = [in_use EXCEPT ![f.client] =
                            [id \in ObjectIDs |-> in_use[f.client][id] + got(id)]]
           /\ last' = Call("get", t, f.client,
                           [object_ids |-> f.object_ids, timeout_ms |-> f.timeout_ms],
                           TRUE,
                           [kind |-> "list", returns |-> GetReturns(object_buffers)])
    /\ pc' = [pc EXCEPT ![t] = "idle"]
    /\ frame' = [frame EXCEPT ![t] = NoFrame]
    /\ gil' = t
    /\ UNCHANGED <<manager_fd, alive, objects, remote, writable, pending, channel,
                   subscribed, store_log, received>>

\* --------------------------------------------------------------- wait
NotConnected == PyErr("RuntimeError", "Not connected to the plasma manager")

\* ObjectStatus the manager reports for a PLASMA_QUERY_ANYWHERE request.
ObjectStatus(id) ==
    IF objects[id].state = "Sealed" THEN "ObjectStatus_Local"
    ELSE IF id \in remote THEN "ObjectStatus_Remote"
    ELSE "ObjectStatus_Nonexistent"

IsReady(status) == status \in {"ObjectStatus_Local", "ObjectStatus_Remote"}

\* PlasmaClient::Wait: the status of every request, and how many are ready.
Client_Wait(object_ids) ==
    LET status == [i \in 1..Len(object_ids) |-> ObjectStatus(object_ids[i])]
    IN  [status |-> status,
         num_return_objects |-> Cardinality({i \in DOMAIN status : IsReady(status[i])})]

Client_Wait_done(object_ids, num_returns, timeout, timed_out) ==
    \/ Client_Wait(object_ids).num_return_objects >= num_returns
    \/ timed_out /\ timeout >= 0

\* The argument checks of PyPlasma_wait, in order; PyNone when all pass.
WaitArgumentErrorLax(fd, n, num_returns, timeout) ==
    IF fd = NoManager THEN NotConnected
    ELSE IF num_returns < 0
    THEN PyErr("RuntimeError", "The argument num_returns cannot be less than zero.")
    ELSE IF num_returns > n + 1
    THEN PyErr("RuntimeError",
               "The argument num_returns cannot be greater than len(object_ids)")
    ELSE IF timeout >= threshold
    THEN PyErr("RuntimeError", "The argument timeout cannot be greater than 2 ** 30.")
    ELSE PyNone
WaitArgumentError(fd, n, num_returns, timeout) ==
    IF fd = NoManager THEN NotConnected
    ELSE IF num_returns < 0
    THEN PyErr("RuntimeError", "The argument num_returns cannot be less than zero.")
    ELSE IF num_returns > n
    THEN PyErr("RuntimeError",
               "The argument num_returns cannot be greater than len(object_ids)")
    ELSE IF timeout > threshold
    THEN PyErr("RuntimeError", "The argument timeout cannot be greater than 2 ** 30.")
    ELSE PyNone

Min(a, b) == IF a < b THEN a ELSE b

\* The loop of PyPlasma_wait over the answered requests: the ids put in
\* ready_ids, or "check" when an ARROW_CHECK of the loop fails.
RECURSIVE WaitLoop(_, _, _, _, _)
WaitLoop(object_ids, status, num_to_return, i, ready) ==
    IF i > Len(object_ids) \/ Len(ready) = num_to_return
    THEN [ok |-> TRUE, ready |-> ready]
    ELSE IF IsReady(status[i])
    THEN WaitLoop(object_ids, status, num_to_return, i + 1, Append(ready, object_ids[i]))
    ELSE IF status[i] = "ObjectStatus_Nonexistent"
    THEN WaitLoop(object_ids, status, num_to_return, i + 1, ready)
    ELSE [ok |-> FALSE, ready |-> ready]

\* What PyPlasma_wait returns for the answer of PlasmaClient::Wait.
WaitReturnNoClamp(object_ids, status, num_return_objects, num_returns) ==
    LET num_to_return == num_return_objects
        loop == WaitLoop(object_ids, status, num_to_return, 1, <<>>)
    IN  IF ~loop.ok \/ Len(loop.ready) # num_to_return THEN Aborted
        ELSE [kind |-> "tuple", ready_ids |-> loop.ready,
              waiting_ids |-> Range(object_ids) \ Range(loop.ready)]
WaitReturnKeepAll(object_ids, status, num_return_objects, num_returns) ==
    LET num_to_return == Min(num_return_objects, num_returns)
        loop == WaitLoop(object_ids, status, num_to_return, 1, <<>>)
    IN  IF ~loop.ok \/ Len(loop.ready) # num_to_return THEN Aborted
        ELSE [kind |-> "tuple", ready_ids |-> loop.ready,
              waiting_ids |-> Range(object_ids)]
WaitReturn(object_ids, status, num_return_objects, num_returns) ==
    LET num_to_return == Min(num_return_objects, num_returns)
        loop == WaitLoop(object_ids, status, num_to_return, 1, <<>>)
    IN  IF ~loop.ok \/ Len(loop.ready) # num_to_return THEN Aborted
        ELSE [kind |-> "tuple", ready_ids |-> loop.ready,
              waiting_ids |-> Range(object_ids) \ Range(loop.ready)]

PyPlasma_wait_begin(t, c, object_id_list, timeout, num_returns) ==
    /\ HoldGIL(t)
    /\ LET n == Len(object_id_list)
           args == [object_ids |-> object_id_list, timeout |-> timeout,
                    num_returns |-> num_returns]
           err == WaitArgumentError(manager_fd[c], n, num_returns, timeout)
       IN  IF err # PyNone
           THEN Return("wait", t, c, args, FALSE, err)
           ELSE /\ pc' = [pc EXCEPT ![t] = "wait"]
                /\ frame' = [frame EXCEPT ![t] =
                       [op |-> "wait", client |-> c, object_ids |-> object_id_list,
                        timeout |-> timeout, num_returns |-> num_returns]]
                /\ gil' = Py_BEGIN_ALLOW_THREADS(t)
                /\ last' = Call("wait", t, c, args, TRUE, Blocked)
                /\ UNCHANGED <<manager_fd, alive, objects, remote, in_use, writable,
                               pending, channel, subscribed, store_log, received>>

PyPlasma_wait_end(t, timed_out) ==
    /\ pc[t] = "wait"
    /\ Py_END_ALLOW_THREADS(t)
    /\ LET f == frame[t]
           answer == Client_Wait(f.object_ids)
           ret == WaitReturn(f.object_ids, answer.status, answer.num_return_objects,
                             f.num_returns)
       IN  /\ Client_Wait_done(f.object_ids, f.num_returns, f.timeout, timed_out)
           /\ alive' = (ret # Aborted)
           /\ last' = Call("wait", t, f.client,
                           [object_ids |-> f.object_ids, timeout |-> f.timeout,
                            num_returns |-> f.num_returns, status |-> answer.status],
                           TRUE, ret)
    /\ pc' = [pc EXCEPT ![t] = "idle"]
    /\ frame' = [frame EXCEPT ![t] = NoFrame]
    /\ gil' = t
    /\ UNCHANGED <<manager_fd, objects, remote, in_use, writable, pending, channel,
                   subscribed, store_log, received>>

\* ------------------------------------------------------ fetch, transfer
\* The check fetch and transfer make before they call the client.
ManagerCheckSkipped(fd) == PyNone
ManagerCheck(fd) == IF fd = NoManager THEN NotConnected ELSE PyNone

PyPlasma_fetch(t, c, object_id_list) ==
    /\ HoldGIL(t)
    /\ LET args == [object_ids |-> object_id_list]
       IN  IF ManagerCheck(manager_fd[c]) # PyNone
           THEN Return("fetch", t, c, args, FALSE, ManagerCheck(manager_fd[c]))
           ELSE /\ pending' = [pending EXCEPT !.fetch =
                                   @ \cup (Range(object_id_list) \ Sealed)]
                /\ gil' = t
                /\ last' = Call("fetch", t, c, args, TRUE, PyNone)
                /\ UNCHANGED <<manager_fd, alive, objects, remote, in_use, writable,
                               channel, subscribed, store_log, received, pc, frame>>

PyPlasma_transfer(t, c, addr, port, object_id) ==
    /\ HoldGIL(t)
    /\ LET args == [object_id |-> object_id, addr |-> addr, port |-> port]
       IN  IF ManagerCheck(manager_fd[c]) # PyNone
           THEN Return("transfer", t, c, args, FALSE, ManagerCheck(manager_fd[c]))
           ELSE /\ pending' = [pending EXCEPT !.transfer = @ \cup {object_id}]
                /\ gil' = t
                /\ last' = Call("transfer", t, c, args, TRUE, PyNone)
                /\ UNCHANGED <<manager_fd, alive, objects, remote, in_use, writable,
                               channel, subscribed, store_log, received, pc, frame>>

\* The manager finishes a fetch it accepted: a copy of the peer's object is
\* sealed in the local store.
Manager_fetch_complete(object_id) ==
    /\ alive
    /\ object_id \in pending.fetch
    /\ object_id \in remote
    /\ objects[object_id].state = "Absent"
    /\ CanPublish
    /\ objects' = [objects EXCEPT ![object_id] =
           [AbsentObject EXCEPT !.state = "Sealed"]]
    /\ Publish(ObjectInfo(object_id, FALSE, 0, 0),
               [object_id |-> object_id, kind |-> "seal", data_size |-> 0,
                metadata_size |-> 0])
    /\ pending' = [pending EXCEPT !.fetch = @ \ {object_id}]
    /\ UNCHANGED <<manager_fd, alive, gil, remote, in_use, writable, subscribed,
                   received, pc, frame, last>>

\* The manager finishes a transfer it accepted: the peer now has the object.
Manager_transfer_complete(object_id) ==
    /\ alive
    /\ object_id \in pending.transfer
    /\ objects[object_id].state = "Sealed"
    /\ remote' = remote \cup {object_id}
    /\ pending' = [pending EXCEPT !.transfer = @ \ {object_id}]
    /\ UNCHANGED <<manager_fd, alive, gil, objects, in_use, writable, channel,
                   subscribed, store_log, received, pc, frame, last>>

\* A client of a peer store seals an object there.
Peer_seal(object_id) ==
    /\ alive
    /\ object_id \notin remote
    /\ objects[object_id].state = "Absent"
    /\ remote' = remote \cup {object_id}
    /\ UNCHANGED <<manager_fd, alive, gil, objects, in_use, writable, pending,
                   channel, subscribed, store_log, received, pc, frame, last>>

\* ------------------------------------------------------ notifications
PyPlasma_subscribe(t, c) ==
    /\ HoldGIL(t)
    /\ ~subscribed
    /\ subscribed' = TRUE
    /\ gil' = t
    /\ last' = Call("subscribe", t, c, [none |-> 0], TRUE,
                    [kind |-> "long", value |-> NotificationSock])
    /\ UNCHANGED <<manager_fd, alive, objects, remote, in_use, writable, pending,
                   channel, store_log, received, pc, frame>>

\* The tuple PyPlasma_receive_notification builds from a decoded frame.
NotificationTupleRaw(object_info) ==
    <<object_info.object_id, object_info.data_size, object_info.metadata_size>>
NotificationTuple(object_info) ==
    IF object_info.is_deletion
    THEN <<object_info.object_id, -1, -1>>
    ELSE <<object_info.object_id, object_info.data_size, object_info.metadata_size>>

\* read_message_async gives NULL on a socket that is not open and otherwise
\* blocks until a frame is there.
PyPlasma_receive_notification(t, plasma_sock) ==
    /\ HoldGIL(t)
    /\ LET args == [plasma_sock |-> plasma_sock]
       IN  IF ~subscribed \/ plasma_sock # NotificationSock
           THEN Return("receive_notification", t, NoClient, args, FALSE,
                       PyErr("RuntimeError",
                             "Failed to read object notification from Plasma socket"))
           ELSE /\ channel # <<>>
                /\ channel' = Tail(channel)
                /\ received' = Append(received, NotificationTuple(Head(channel)))
                /\ gil' = t
                /\ last' = Call("receive_notification", t, NoClient, args, FALSE,
                                [kind |-> "tuple",
                                 value |-> NotificationTuple(Head(channel))])
                /\ UNCHANGED <<manager_fd, alive, objects, remote, in_use, writable,
                               pending, subscribed, store_log, pc, frame>>

\* ------------------------------------------------------------ initial
\* The state after PyPlasma_connect has made the two clients: c1 with a
\* manager connection, c2 without one.
Init ==
    /\ manager_fd = [c \in Clients |-> IF c = "c1" THEN ManagerFd ELSE NoManager]
    /\ alive = TRUE
    /\ gil = NoThread
    /\ objects = [id \in ObjectIDs |-> AbsentObject]
    /\ remote = {}
    /\ in_use = [c \in Clients |-> [id \in ObjectIDs |-> 0]]
    /\ writable = {}
    /\ pending = [fetch |-> {}, transfer |-> {}]
    /\ channel = <<>>
    /\ subscribed = FALSE
    /\ store_log = <<>>
    /\ received = <<>>
    /\ pc = [t \in Threads |-> "idle"]
    /\ frame = [t \in Threads |-> NoFrame]
    /\ last = NoCall

\* ------------------------------------------------------ specifications
Metadatas == {<<>>, <<1>>}
GetTimeouts == {-1, 0}
WaitTimeouts == {-1, 0, threshold, threshold + 1}
NumReturns == -1..(MaxLen + 1)

\* Producer and consumer: c1 creates, writes, seals and deletes objects, c2
\* gets them.  The calls made are the ones the client accepts.
Next ==
    \/ \E id \in ObjectIDs, size \in DataSizes, m \in Metadatas :
          PyPlasma_create("t1", "c1", id, size, m)
    \/ \E id \in ObjectIDs, i \in DataSizes, b \in Bytes : WriteBuffer("t1", id, i, b)
    \/ \E id \in ObjectIDs :
          Client_Seal("c1", id) = "OK" /\ PyPlasma_seal("t1", "c1", id)
    \/ \E id \in ObjectIDs :
          Client_Delete("c1", id) = "OK" /\ PyPlasma_delete("t1", "c1", id)
    \/ \E ids \in IdLists, timeout_ms \in GetTimeouts :
          PyPlasma_get_begin("t1", "c2", ids, timeout_ms)
    \/ \E timed_out \in BOOLEAN : PyPlasma_get_end("t1", timed_out)
    \/ \E id \in ObjectIDs :
          Client_Release("c2", id) = "OK" /\ PyPlasma_release("t1", "c2", id)
    \/ \E c \in Clients, id \in ObjectIDs : PyPlasma_contains("t1", c, id)
    \/ TakeResult

Spec == Init /\ [][Next]_vars

\* Both clients create objects under ids of their choice.
NextCreate ==
    \/ \E c \in Clients, id \in ObjectIDs, size \in DataSizes, m \in Metadatas :
          PyPlasma_create("t1", c, id, size, m)
    \/ \E id \in ObjectIDs, i \in DataSizes, b \in Bytes : WriteBuffer("t1", id, i, b)
    \/ \E c \in Clients, id \in ObjectIDs :
          Client_Seal(c, id) = "OK" /\ PyPlasma_seal("t1", c, id)
    \/ \E c \in Clients, id \in ObjectIDs :
          Client_Delete(c, id) = "OK" /\ PyPlasma_delete("t1", c, id)
    \/ TakeResult

SpecCreate == Init /\ [][NextCreate]_vars

\* Any lifecycle call on any id, whether the client accepts it or not.
NextErrors ==
    \/ \E c \in Clients, id \in ObjectIDs : PyPlasma_create("t1", c, id, 0, <<>>)
    \/ \E c \in Clients, id \in ObjectIDs : PyPlasma_seal("t1", c, id)
    \/ \E c \in Clients, id \in ObjectIDs : PyPlasma_release("t1", c, id)
    \/ \E c \in Clients, id \in ObjectIDs : PyPlasma_delete("t1", c, id)
    \/ \E c \in Clients, id \in ObjectIDs : PyPlasma_contains("t1", c, id)
    \/ TakeResult

SpecErrors == Init /\ [][NextErrors]_vars

\* Waiting for objects sealed locally or on a peer; fetch and transfer.
NextWait ==
    \/ \E id \in ObjectIDs : PyPlasma_create("t1", "c1", id, 0, <<>>)
    \/ \E id \in ObjectIDs :
          Client_Seal("c1", id) = "OK" /\ PyPlasma_seal("t1", "c1", id)
    \/ \E id \in ObjectIDs :
          Client_Delete("c1", id) = "OK" /\ PyPlasma_delete("t1", "c1", id)
    \/ \E id \in ObjectIDs : Peer_seal(id)
    \/ \E ids \in IdLists, timeout \in WaitTimeouts, num_returns \in NumReturns :
          PyPlasma_wait_begin("t1", "c1", ids, timeout, num_returns)
    \/ \E ids \in IdLists, num_returns \in {0, 1} :
          PyPlasma_wait_begin("t1", "c2", ids, 0, num_returns)
    \/ \E timed_out \in BOOLEAN : PyPlasma_wait_end("t1", timed_out)
    \/ TakeResult

SpecWait == Init /\ [][NextWait]_vars

\* Objects moving between the local store and a peer.
NextTransfer ==
    \/ \E id \in ObjectIDs : PyPlasma_create("t1", "c1", id, 0, <<>>)
    \/ \E id \in ObjectIDs :
          Client_Seal("c1", id) = "OK" /\ PyPlasma_seal("t1", "c1", id)
    \/ \E id \in ObjectIDs : Peer_seal(id)
    \/ \E c \in Clients, ids \in IdLists : PyPlasma_fetch("t1", c, ids)
    \/ \E c \in Clients, id \in ObjectIDs : PyPlasma_transfer("t1", c, "peer", 1, id)
    \/ \E id \in ObjectIDs : Manager_fetch_complete(id)
    \/ \E id \in ObjectIDs : Manager_transfer_complete(id)
    \/ \E c \in Clients, id \in ObjectIDs : PyPlasma_contains("t1", c, id)
    \/ TakeResult

SpecTransfer == Init /\ [][NextTransfer]_vars

\* A subscriber on c1 and the seals and deletes made through c2.
NextNotify ==
    \/ PyPlasma_subscribe("t1", "c1")
    \/ PyPlasma_receive_notification("t1", NotificationSock)
    \/ \E id \in ObjectIDs, size \in DataSizes :
          PyPlasma_create("t1", "c2", id, size, <<>>)
    \/ \E id \in ObjectIDs :
          Client_Seal("c2", id) = "OK" /\ PyPlasma_seal("t1", "c2", id)
    \/ \E id \in ObjectIDs :
          Client_Delete("c2", id) = "OK" /\ PyPlasma_delete("t1", "c2", id)
    \/ TakeResult

SpecNotify == Init /\ [][NextNotify]_vars

\* Two threads sharing the connection c1.
NextThreads ==
    \/ \E t \in Threads, id \in ObjectIDs : PyPlasma_create(t, "c1", id, 0, <<>>)
    \/ \E t \in Threads, id \in ObjectIDs :
          Client_Seal("c1", id) = "OK" /\ PyPlasma_seal(t, "c1", id)
    \/ \E t \in Threads, id \in ObjectIDs : PyPlasma_contains(t, "c1", id)
    \/ \E t \in Threads, ids \in IdLists, timeout_ms \in GetTimeouts :
          PyPlasma_get_begin(t, "c1", ids, timeout_ms)
    \/ \E t \in Threads, timed_out \in BOOLEAN : PyPlasma_get_end(t, timed_out)
    \/ \E t \in Threads, ids \in IdLists, num_returns \in 0..MaxLen :
          num_returns <= Len(ids) /\ PyPlasma_wait_begin(t, "c1", ids, 0 - 1, num_returns)
    \/ \E t \in Threads, timed_out \in BOOLEAN : PyPlasma_wait_end(t, timed_out)
    \/ TakeResult

SpecThreads == Init /\ [][NextThreads]_vars

\* ============================================================ properties
\* A step in which a call of binding function op is rejected or returns (or
\* enters its blocking client call).
CallStep(op) == last' # last /\ last'.op = op
Returned(op) == last.op = op /\ last.ret.kind \notin {"blocked", "abort"}

\* ---- wait: what the result must be, stated apart from the loop of the code
ReadyPositions(status) == {i \in DOMAIN status : IsReady(status[i])}

RECURSIVE Ascending(_)
Ascending(S) ==
    IF S = {} THEN <<>>
    ELSE LET m == CHOOSE x \in S : \A y \in S : x <= y
         IN  <<m>> \o Ascending(S \ {m})

\* The first m ready ids of the input, in input order.
FirstReady(object_ids, status, m) ==
    [j \in 1..m |-> object_ids[Ascending(ReadyPositions(status))[j]]]

WaitResultAsSpecified(call) ==
    LET ids == call.args.object_ids
        status == call.args.status
        R == Cardinality(ReadyPositions(status))
        m == Min(call.args.num_returns, R)
    IN  /\ call.ret.kind = "tuple"
        /\ call.ret.ready_ids = FirstReady(ids, status, m)
        /\ call.ret.waiting_ids = Range(ids) \ Range(call.ret.ready_ids)
        /\ \A i \in DOMAIN ids :
              status[i] = "ObjectStatus_Nonexistent"
                  => ids[i] \notin Range(call.ret.ready_ids)

\* Every ready id at a position after the one that filled the quota is in
\* remaining_ids.
ReadyAfterQuotaRemains(call) ==
    LET ids == call.args.object_ids
        status == call.args.status
        ready == Ascending(ReadyPositions(status))
        k == call.args.num_returns
        filled_at == IF k = 0 THEN 0 ELSE ready[k]
    IN  k <= Len(ready) =>
            \A i \in DOMAIN ids :
                i > filled_at /\ IsReady(status[i]) => ids[i] \in call.ret.waiting_ids

WaitAnswered == last.op = "wait" /\ last.invoked /\ last.ret.kind # "blocked"

\* C1 (as claimed): for every id list, quota and status vector, wait returns
\* the first min(num_returns, R) ready ids in input order and the set of the
\* other input ids; Nonexistent ids are never ready, and a ready id positioned
\* after the quota is filled stays in remaining_ids.
C1_AsClaimed ==
    WaitAnswered => WaitResultAsSpecified(last) /\ ReadyAfterQuotaRemains(last)

\* C1 (amended): for every id list, quota and status vector, wait returns the
\* first min(num_returns, R) ready ids in input order and, as remaining_ids,
\* the set of input ids minus ready_ids; Nonexistent ids are never in
\* ready_ids.  A ready id positioned after the quota is filled stays in
\* remaining_ids unless the list repeats it and an earlier occurrence was
\* selected.
C1_WaitSelectsFirstReady ==
    WaitAnswered =>
        /\ WaitResultAsSpecified(last)
        /\ LET ids == last.args.object_ids
           IN  \A i \in DOMAIN ids :
                   \/ ids[i] \in last.ret.waiting_ids
                   \/ ids[i] \in Range(last.ret.ready_ids)

\* wait([A, B], 2, t) with only B ready: ready_ids = [B], remaining_ids = {A}.
C1_Witness ==
    /\ WaitAnswered
    /\ last.args.object_ids = <<"A", "B">>
    /\ last.args.num_returns = 2
    /\ last.args.status[1] = "ObjectStatus_Nonexistent"
    /\ last.ret.kind = "tuple"
    /\ last.ret.ready_ids = <<"B">>
    /\ last.ret.waiting_ids = {"A"}

\* ---- wait: argument checks
BadWaitArguments(args) ==
    \/ args.num_returns < 0
    \/ args.num_returns > Len(args.object_ids)
    \/ args.timeout > 2 ^ 30

\* C2: wait with num_returns < 0, num_returns > len(ids) or timeout > 2^30 is
\* rejected with an error before the client's Wait is invoked and without any
\* change of the store; with a timeout of exactly 2^30 (and a valid quota, on
\* a client that has a manager) the call is accepted.
C2_WaitRejectsBadArguments ==
    [][CallStep("wait") =>
        /\ BadWaitArguments(last'.args) =>
              /\ last'.ret.kind = "error"
              /\ last'.ret.exc = "RuntimeError"
              /\ ~last'.invoked
              /\ UNCHANGED <<storeVars, pc, frame, alive>>
        /\ (/\ last'.args.timeout = 2 ^ 30
            /\ ~BadWaitArguments(last'.args)
            /\ manager_fd[last'.client] # NoManager) =>
              /\ last'.invoked
              /\ last'.ret.kind # "error"]_vars

\* wait([A], 1, 2^30 + 1) on the client with a manager is rejected for its
\* timeout.
C2_Witness ==
    /\ last.op = "wait"
    /\ last.client = "c1"
    /\ last.args.object_ids = <<"A">>
    /\ last.args.num_returns = 1
    /\ last.args.timeout = 2 ^ 30 + 1
    /\ last.ret = PyErr("RuntimeError",
                        "The argument timeout cannot be greater than 2 ** 30.")
    /\ ~last.invoked

\* ---- wait with num_returns = 0
EmptyWaitResult(call) ==
    /\ call.ret.kind = "tuple"
    /\ call.ret.ready_ids = <<>>
    /\ call.ret.waiting_ids = Range(call.args.object_ids)

\* C3 (as claimed): wait with num_returns = 0 returns an empty ready_ids and
\* all ids in remaining_ids for every id list, every timeout and every
\* connection, with or without a manager.
C3_AsClaimed ==
    (last.op = "wait" /\ last.args.num_returns = 0 /\ last.ret.kind # "blocked")
        => EmptyWaitResult(last)

\* C3 (amended): on a connection that has a manager and with timeout <= 2^30,
\* wait with num_returns = 0 can return at once (no object has to become
\* ready and no timeout has to elapse) and returns an empty ready_ids and all
\* ids in remaining_ids, whatever the readiness of the objects; on a
\* connection without a manager, or with timeout > 2^30, it is rejected with a
\* RuntimeError.
C3_WaitZeroReturnsAtOnce ==
    /\ (last.op = "wait" /\ last.args.num_returns = 0 /\ last.ret.kind # "blocked") =>
          IF manager_fd[last.client] # NoManager /\ last.args.timeout <= 2 ^ 30
          THEN EmptyWaitResult(last)
          ELSE last.ret.kind = "error" /\ last.ret.exc = "RuntimeError"
    /\ \A t \in Threads :
          (pc[t] = "wait" /\ frame[t].num_returns = 0) =>
              Client_Wait_done(frame[t].object_ids, 0, frame[t].timeout, FALSE)

\* wait([A, B], 0, t) returned nothing as ready although A is sealed locally.
C3_Witness ==
    /\ WaitAnswered
    /\ last.args.num_returns = 0
    /\ last.args.object_ids = <<"A", "B">>
    /\ last.args.status[1] = "ObjectStatus_Local"
    /\ EmptyWaitResult(last)

\* ---- get
ReadView(bytes) == [kind |-> "memoryview", bytes |-> bytes, flags |-> "PyBUF_READ"]

\* C4: get returns a list as long as the id list; entry i is the pair of
\* read-only views of the data and metadata of ids[i] when that object is
\* sealed in the store as the call ends, and None when it is not; get never
\* raises for an absent id.  (In the state a call has just returned to, the
\* store is as the call left it.)
C4_GetIsPositional ==
    /\ last.op = "get" => last.ret.kind \in {"blocked", "list"}
    /\ Returned("get") =>
          LET ids == last.args.object_ids
              returns == last.ret.returns
          IN  /\ Len(returns) = Len(ids)
              /\ \A i \in DOMAIN ids :
                    LET o == objects[ids[i]]
                    IN  IF o.state = "Sealed"
                        THEN returns[i] = [kind |-> "tuple", data |-> ReadView(o.data),
                                           metadata |-> ReadView(o.metadata)]
                        ELSE returns[i] = PyNone

\* get([A, B], t) with A absent and B sealed: [None, (data, metadata) of B].
C4_Witness ==
    /\ Returned("get")
    /\ last.args.object_ids = <<"A", "B">>
    /\ objects["A"].state # "Sealed"
    /\ last.ret.returns[1] = PyNone
    /\ last.ret.returns[2].kind = "tuple"
    /\ last.ret.returns[2].data.bytes = <<1>>
    /\ last.ret.returns[2].metadata.bytes = <<>>

\* ---- create
\* C5: create with an id the store already knows, unsealed or sealed, raises
\* the object-exists error (not the out-of-memory error), returns no buffer,
\* and leaves every object, its state and its bytes, as they were.
C5_CreateDuplicateConflicts ==
    [][(CallStep("create") /\ objects[last'.args.object_id].state # "Absent") =>
          /\ last'.ret.kind = "error"
          /\ last'.ret.exc = "PlasmaObjectExistsError"
          /\ last'.ret.exc # "PlasmaOutOfMemoryError"
          /\ UNCHANGED <<objects, writable, in_use>>]_vars

\* c2 was refused the id of an object that c1 created and sealed with data.
C5_Witness ==
    /\ last.op = "create"
    /\ last.client = "c2"
    /\ last.ret.kind = "error"
    /\ last.ret.exc = "PlasmaObjectExistsError"
    /\ objects[last.args.object_id].state = "Sealed"
    /\ objects[last.args.object_id].data = <<1>>
    /\ in_use["c1"][last.args.object_id] = 1

\* ---- write, seal, get
\* C6: get never returns data for an id that is not sealed, and for a sealed
\* id it returns exactly the bytes the buffer held when it was sealed.
C6_GetReturnsSealedBytes ==
    Returned("get") =>
        \A i \in DOMAIN last.args.object_ids :
            LET o == objects[last.args.object_ids[i]]
                r == last.ret.returns[i]
            IN  /\ o.state # "Sealed" => r = PyNone
                /\ r # PyNone => r.data.bytes = o.at_seal

\* ---- notifications
IsDeletion(event) == event[2] = -1 /\ event[3] = -1
IsCreation(event) == event[2] >= 0 /\ event[3] >= 0

\* What the subscriber must be handed for an operation of the store.
EventOf(what) ==
    IF what.kind = "delete" THEN <<what.object_id, -1, -1>>
    ELSE <<what.object_id, what.data_size, what.metadata_size>>

Decoded(frames) == [j \in DOMAIN frames |-> NotificationTuple(frames[j])]

\* C7: the events receive_notification has returned, followed by those still
\* on the socket, are the seals and deletes the store performed since the
\* subscription, one event each, in the store's order: (id, d, m) with
\* d, m >= 0 for a seal and (id, -1, -1) for a delete.  Every event returned
\* is a deletion or a creation, and among the events of one object a deletion
\* never comes first before its creation: creations and deletions alternate.
C7_EventsInStoreOrder ==
    /\ received \o Decoded(channel) = [j \in DOMAIN store_log |-> EventOf(store_log[j])]
    /\ \A j \in DOMAIN received :
          /\ IsDeletion(received[j]) \/ IsCreation(received[j])
          /\ ~(IsDeletion(received[j]) /\ IsCreation(received[j]))
    /\ \A i, j \in DOMAIN received :
          (/\ i < j
           /\ received[i][1] = received[j][1]
           /\ \A h \in (i + 1)..(j - 1) : received[h][1] # received[i][1])
              => \/ (IsCreation(received[i]) /\ IsDeletion(received[j]))
                 \/ (IsDeletion(received[i]) /\ IsCreation(received[j]))
    /\ (last.op = "receive_notification" /\ last.ret.kind = "tuple") =>
          /\ received # <<>>
          /\ last.ret.value = received[Len(received)]

\* After subscribe, create + seal of B (1 data byte, no metadata) and delete(B)
\* through the other client: receive_notification gave (B, 1, 0), (B, -1, -1).
C7_Witness ==
    /\ received = << <<"B", 1, 0>>, <<"B", -1, -1>> >>
    /\ last.op = "receive_notification"
    /\ last.ret.value = <<"B", -1, -1>>

\* ---- threads
BlockedThreads == {t \in Threads : pc[t] \in {"get", "wait"}}

C9_FailuresAreReturned ==
    /\ alive
    /\ last.ret.kind # "abort"

\* ---- fetch, transfer
\* C10: fetch and transfer on a client without a manager raise the
\* not-connected RuntimeError without calling the client and without changing
\* the store; on a client with a manager they return None as soon as the
\* request is accepted: the request is pending, no object has moved yet.
C10_FetchTransferNeedManager ==
    [][(CallStep("fetch") \/ CallStep("transfer")) =>
          IF manager_fd[last'.client] = NoManager
          THEN /\ last'.ret = NotConnected
               /\ ~last'.invoked
               /\ UNCHANGED <<storeVars, alive>>
          ELSE /\ last'.ret = PyNone
               /\ last'.invoked
               /\ UNCHANGED <<objects, remote, alive>>
               /\ IF last'.op = "fetch"
                  THEN Range(last'.args.object_ids) \ Sealed \subseteq pending'.fetch
                  ELSE last'.args.object_id \in pending'.transfer]_vars

\* fetch([A]) on the client without a manager, with A sealed on a peer.
C10_Witness ==
    /\ last.op = "fetch"
    /\ last.client = "c2"
    /\ last.args.object_ids = <<"A">>
    /\ "A" \in remote
    /\ last.ret = NotConnected
    /\ ~last.invoked

====
